---- MODULE Spec2Model ----
(***************************************************************************)
(* tinycompress: the compress-offload stream handle of src/compress.c.     *)
(*                                                                         *)
(* The state is one heap handle (struct compress), the static sentinel     *)
(* bad_compress, and the device behind the backend operations.  Every      *)
(* backend primitive (open, close, ioctl, read, write, poll) and the node  *)
(* helpers of snd_utils are the environment: their results are inputs      *)
(* drawn with \E.  Each API function is one action; only the transfer loop *)
(* of compress_write / compress_read is stepped, one loop iteration per    *)
(* step, because every iteration asks the device again.                    *)
(***************************************************************************)
EXTENDS Integers, Sequences, FiniteSets, TLC

(***************************************************************************)
(* Bounds of the model.                                                    *)
(***************************************************************************)
\* largest request size handed to compress_write / compress_read
MaxSize == 4
\* largest availability the device reports (snd_compr_avail.avail)
MaxAvail == 2
\* device nodes that may be held at once (handle's node + leaked ones)
MaxNodes == 2
\* device-reported caps.min_fragment_size and caps.max_fragments
DevMinFragmentSize == 1
DevMaxFragments == 4
\* the caller's non-zero fragment_size and fragments
UserFragmentSize == 2
UserFragments == 3
\* scaled integer widths of compress_get_hpointer: sampling_rate and
\* pcm_io_frames are RateBits wide (32 in the code), __u64 time is twice
\* that, and NsecPerSec (1000000000 in the code) is below 2^RateBits.
RateBits == 4
NsecPerSec == 10

(***************************************************************************)
(* Program constants.                                                      *)
(***************************************************************************)
DEFAULT_MAX_POLL_WAIT_MS == 20000

\* SNDRV_PROTOCOL_VERSION(0, 1, 1)
GaplessVersion == (0 * 65536) + (1 * 256) + 1

RateMod == 2 ^ RateBits
TimeMod == 2 ^ (2 * RateBits)

COMPRESS_IN == "COMPRESS_IN"
COMPRESS_OUT == "COMPRESS_OUT"
FlagSets == SUBSET {COMPRESS_IN, COMPRESS_OUT}

Codecs == {1, 2}

\* errno values a failing backend primitive may leave
Errnos == {"EBADFD", "EIO"}
\* result of one ioctl: "ok" (returns 0) or the errno of the failure
IoctlResults == {"ok"} \cup Errnos

\* protocol versions a device may report to SNDRV_COMPRESS_IOCTL_VERSION
Versions == {0, GaplessVersion - 1, GaplessVersion}

Targets == {"handle", "bad"}

NoError == [msg |-> "", e |-> "none"]

NullConfig == [null |-> TRUE, fragment_size |-> 0, fragments |-> 0, codec |-> 0]

Config(fs, fr, cd) == [null |-> FALSE, fragment_size |-> fs, fragments |-> fr, codec |-> cd]

UserConfigs == {Config(fs, fr, cd) : fs \in {0, UserFragmentSize},
                                     fr \in {0, UserFragments}, cd \in Codecs}

VARIABLES
    compress,       \* the heap handle returned by a successful compress_open
    live,           \* TRUE while that handle is allocated (opened, not closed)
    bad_compress,   \* the static sentinel
    dev,            \* the device: version, last pushed params, held nodes, open connections
    xfer,           \* the compress_write / compress_read call in progress
    last,           \* the last API call: operation, target, arguments, result
    mdSince,        \* history: set_gapless_metadata succeeded since the last successful next_track (or open)
    ntSince,        \* history: next_track succeeded since the last successful partial_drain (or open)
    ntUsed          \* history: successful partial_drain / set_codec_params calls since the last successful next_track (or open), counted up to 2

vars == <<compress, live, bad_compress, dev, xfer, last, mdSince, ntSince, ntUsed>>

(***************************************************************************)
(* struct compress (lines 86-100) after calloc, and the sentinel.          *)
(***************************************************************************)
ZeroHandle == [fd |-> 0, flags |-> {}, error |-> NoError, config |-> NullConfig,
               running |-> 0, max_poll_wait_ms |-> 0, nonblocking |-> 0,
               gapless_metadata |-> 0, next_track |-> 0, ops |-> "NULL"]

BadInit == [ZeroHandle EXCEPT !.fd = -1]

\* the value of an output the callee has not written
Unwritten == 0 - 1

NoOut == [avail |-> Unwritten, tv_sec |-> Unwritten, tv_nsec |-> Unwritten,
          polled |-> FALSE, moved |-> 0, rest |-> 0, stop |-> "none",
          codecs |-> {}, samples |-> Unwritten, sampling_rate |-> Unwritten,
          full |-> FALSE, trace |-> <<>>]

NoArg == [flags |-> {}, config |-> NullConfig, size |-> 0, frames |-> 0,
          rate |-> 0, version |-> 0]

\* the call in progress: pc, direction, requested size, the locals size and
\* total, and its history: polled (ops->poll was called), tick (parity of
\* the iterations made), full (every availability reported so far was at
\* least min(frag_size, size) and every sub-transfer moved all it was asked),
\* trace (while full: availability and bytes moved of each sub-transfer)
IdleXfer == [pc |-> "idle", dir |-> "none", req |-> 0, size |-> 0, total |-> 0,
             polled |-> FALSE, tick |-> 0, full |-> FALSE, trace |-> <<>>]

NoParams == [fragment_size |-> 0, fragments |-> 0, codec |-> 0]

Result(op, t, ret, err, calls, arg, out) ==
    [op |-> op, t |-> t, ret |-> ret, err |-> err, calls |-> calls,
     arg |-> arg, out |-> out]

\* oops(), lines 105-120: record "<msg>: strerror(e)" on the handle, errno = e
oops(c, e, msg) == [c EXCEPT !.error = [msg |-> msg, e |-> e]]

\* a mutant of line 132: the running flag is not looked at
is_compress_running_ready_only(c) == c.fd >= 0

\* is_compress_running(), lines 130-133
is_compress_running(c) == (c.fd >= 0) /\ (c.running # 0)

\* is_compress_ready(), lines 135-138
is_compress_ready(c) == c.fd >= 0

Handle(t) == IF t = "bad" THEN bad_compress ELSE compress

\* the handles a caller can pass: the sentinel always, the heap handle while allocated
Callable(t) == (t = "bad") \/ live

\* store the handle `c` back to the object `t` names
Store(t, c) ==
    /\ compress' = IF t = "handle" THEN c ELSE compress
    /\ bad_compress' = IF t = "bad" THEN c ELSE bad_compress

Idle == xfer.pc = "idle"

Init ==
    /\ compress = ZeroHandle
    /\ live = FALSE
    /\ bad_compress = BadInit
    /\ dev \in [version : Versions, params : {NoParams}, nodes : {0}, conns : {0}]
    /\ xfer = IdleXfer
    /\ last = Result("none", "bad", 0, "none", <<>>, NoArg, NoOut)
    /\ mdSince = FALSE
    /\ ntSince = FALSE
    /\ ntUsed = 0

\* the same, with a device of the current protocol version
InitCurrent == Init /\ dev.version = GaplessVersion

(***************************************************************************)
(* compress_open, lines 182-270.  The call returns the new handle          *)
(* (last.ret = 0) or the sentinel &bad_compress (last.ret = -1).           *)
(***************************************************************************)
\* a mutant of line 236: the defaults are taken only when both values are zero
negotiate_both_zero(config, caps) ==
    IF (config.fragment_size = 0) /\ (config.fragments = 0)
    THEN [config EXCEPT !.fragment_size = caps.min_fragment_size,
                        !.fragments = caps.max_fragments]
    ELSE config

\* lines 235-239: "don't care" values are replaced by the device's defaults
negotiate(config, caps) ==
    IF (config.fragment_size = 0) \/ (config.fragments = 0)
    THEN [config EXCEPT !.fragment_size = caps.min_fragment_size,
                        !.fragments = caps.max_fragments]
    ELSE config

\* fill_compress_params(), lines 174-180
fill_compress_params(config) ==
    [fragment_size |-> config.fragment_size, fragments |-> config.fragments,
     codec |-> config.codec]

\* a mutant of line 210: the direction is not checked
has_direction_unchecked(flags) == TRUE

\* line 210: the flags name a direction
has_direction(flags) == (COMPRESS_OUT \in flags) \/ (COMPRESS_IN \in flags)

\* the caps the device reports to SNDRV_COMPRESS_GET_CAPS
DevCaps == [min_fragment_size |-> DevMinFragmentSize, max_fragments |-> DevMaxFragments]

\* the sentinel is returned: nothing of the handle survives
OpenFail(bad2, dev2, err, calls, arg) ==
    /\ bad_compress' = bad2
    /\ dev' = dev2
    /\ last' = Result("open", "bad", -1, err, calls, arg, NoOut)
    /\ UNCHANGED <<compress, live, xfer, mdSince, ntSince, ntUsed>>

\* what the environment answers during one compress_open: the two callocs
\* (lines 195, 203), ops->open (line 222), GET_CAPS (line 230) and
\* SET_PARAMS (line 254); answers after the first failure are never asked
OpenOk == [alloc |-> "ok", open |-> "ok", caps |-> "ok", params |-> "ok"]

OpenEnvs ==
    {OpenOk}
    \cup {[OpenOk EXCEPT !.alloc = a] : a \in {"no_handle", "no_config"}}
    \cup {[OpenOk EXCEPT !.open = e] : e \in Errnos}
    \cup {[OpenOk EXCEPT !.caps = e] : e \in Errnos}
    \cup {[OpenOk EXCEPT !.params = e] : e \in Errnos}

compress_open(flags, config, env) ==
    /\ Idle /\ ~live /\ dev.nodes < MaxNodes
    /\ LET arg == [NoArg EXCEPT !.flags = flags, !.config = config]
           \* line 215: the node is resolved; line 222: the backend opens
           devNode == [dev EXCEPT !.nodes = @ + 1]
           devOpen == [devNode EXCEPT !.conns = @ + 1]
           \* codec_fail, lines 261-264: node released, connection closed
           devTorn == [devOpen EXCEPT !.nodes = @ - 1, !.conns = @ - 1]
           cfg2 == negotiate(config, DevCaps)
           params == fill_compress_params(cfg2)
       IN
       IF config.null
       THEN OpenFail(oops(bad_compress, "EINVAL", "passed bad config"), dev,
                     "EINVAL", <<>>, arg)
       ELSE IF env.alloc = "no_handle"
       THEN OpenFail(oops(bad_compress, "ENOMEM", "cannot allocate compress object"),
                     dev, "ENOMEM", <<>>, arg)
       ELSE IF env.alloc = "no_config"
       THEN \* line 205: goto input_fail, nothing is recorded
            OpenFail(bad_compress, dev, "none", <<>>, arg)
       ELSE IF ~has_direction(flags)
       THEN OpenFail(oops(bad_compress, "EINVAL",
                          "can't deduce device direction from given flags"),
                     dev, "EINVAL", <<>>, arg)
       ELSE IF env.open # "ok"
       THEN \* lines 224-228: goto config_fail, past the node release
            OpenFail(oops(bad_compress, env.open, "cannot open card device"),
                     devNode, env.open, <<"get_dev_node", "open">>, arg)
       ELSE IF env.caps # "ok"
       THEN \* lines 230-233: the error goes to the handle that is freed next
            OpenFail(bad_compress, devTorn, env.caps,
                     <<"get_dev_node", "open", "GET_CAPS", "put_dev_node", "close">>,
                     arg)
       ELSE IF env.params # "ok"
       THEN OpenFail(oops(bad_compress, env.params, "cannot set device"), devTorn,
                     env.params,
                     <<"get_dev_node", "open", "GET_CAPS", "SET_PARAMS",
                       "put_dev_node", "close">>, arg)
       ELSE /\ compress' = [ZeroHandle EXCEPT
                               !.fd = 0, !.flags = flags, !.config = cfg2,
                               !.max_poll_wait_ms = DEFAULT_MAX_POLL_WAIT_MS,
                               !.ops = "ops"]
            /\ live' = TRUE
            /\ dev' = [devOpen EXCEPT !.params = params]
            /\ last' = Result("open", "handle", 0, "none",
                              <<"get_dev_node", "open", "GET_CAPS", "SET_PARAMS">>,
                              arg, NoOut)
            /\ mdSince' = FALSE
            /\ ntSince' = FALSE
            /\ ntUsed' = 0
            /\ UNCHANGED <<bad_compress, xfer>>

(***************************************************************************)
(* compress_close, lines 272-283.                                          *)
(***************************************************************************)
\* a mutant of line 274: the sentinel is torn down like a handle
close_skips_nothing(t) == FALSE

\* line 274: the sentinel is left alone
close_skips(t) == t = "bad"

compress_close(t) ==
    /\ Idle /\ Callable(t)
    /\ IF close_skips(t)
       THEN /\ last' = Result("close", t, 0, "none", <<>>, NoArg, NoOut)
            /\ UNCHANGED <<compress, live, bad_compress, dev, xfer, mdSince, ntSince, ntUsed>>
       ELSE \* lines 277-282: node released, connection closed, memory freed
            /\ Store(t, [ZeroHandle EXCEPT !.fd = -1])
            /\ live' = IF t = "handle" THEN FALSE ELSE live
            /\ dev' = [dev EXCEPT !.nodes = @ - 1, !.conns = @ - 1]
            /\ last' = Result("close", t, 0, "none", <<"put_dev_node", "close">>,
                              NoArg, NoOut)
            /\ UNCHANGED <<xfer, mdSince, ntSince, ntUsed>>

(***************************************************************************)
(* Stream control, lines 447-546 and 627-644.  `io` is the result of the   *)
(* ioctl the operation issues.                                             *)
(***************************************************************************)
\* an operation on handle `t` returns: its handle is stored, the call recorded
Return(t, c, op, ret, err, calls, arg) ==
    /\ Store(t, c)
    /\ last' = Result(op, t, ret, err, calls, arg, NoOut)
    /\ UNCHANGED <<live, xfer>>

\* the value of last.ret when the call did not return
NoReturn == 0 - 2

\* the call reads through a null pointer (the sentinel's ops or config, a
\* null argument): the process is killed inside the call, nothing is
\* written, and no later call is made
Crash(t, op, arg) ==
    /\ xfer' = [IdleXfer EXCEPT !.pc = "crashed"]
    /\ last' = Result(op, t, NoReturn, "SIGSEGV", <<>>, arg, NoOut)
    /\ UNCHANGED <<compress, live, bad_compress, dev, mdSince, ntSince, ntUsed>>

NotReady(t, op, arg) ==
    /\ Return(t, oops(Handle(t), "ENODEV", "device not ready"), op, -1, "ENODEV",
              <<>>, arg)
    /\ UNCHANGED <<dev, mdSince, ntSince, ntUsed>>

\* compress_start, lines 447-456
compress_start(t, io) ==
    /\ Idle /\ Callable(t)
    /\ LET c == Handle(t) IN
       IF ~is_compress_ready(c) THEN NotReady(t, "start", NoArg)
       ELSE /\ IF io # "ok"
               THEN Return(t, oops(c, io, "cannot start the stream"), "start", -1,
                           io, <<"START">>, NoArg)
               ELSE Return(t, [c EXCEPT !.running = 1], "start", 0, "none",
                           <<"START">>, NoArg)
            /\ UNCHANGED <<dev, mdSince, ntSince, ntUsed>>

\* a mutant of lines 463-464: a successful stop clears running
stop_done_clears_running(c) == [c EXCEPT !.running = 0]

\* lines 463-464: a successful stop changes nothing on the handle
stop_done(c) == c

\* compress_stop, lines 458-465
compress_stop(t, io) ==
    /\ Idle /\ Callable(t)
    /\ LET c == Handle(t) IN
       IF ~is_compress_running(c) THEN NotReady(t, "stop", NoArg)
       ELSE /\ IF io # "ok"
               THEN Return(t, oops(c, io, "cannot stop the stream"), "stop", -1,
                           io, <<"STOP">>, NoArg)
               ELSE Return(t, stop_done(c), "stop", 0, "none", <<"STOP">>, NoArg)
            /\ UNCHANGED <<dev, mdSince, ntSince, ntUsed>>

\* compress_pause, lines 467-474
compress_pause(t, io) ==
    /\ Idle /\ Callable(t)
    /\ LET c == Handle(t) IN
       IF ~is_compress_running(c) THEN NotReady(t, "pause", NoArg)
       ELSE /\ IF io # "ok"
               THEN Return(t, oops(c, io, "cannot pause the stream"), "pause", -1,
                           io, <<"PAUSE">>, NoArg)
               ELSE Return(t, c, "pause", 0, "none", <<"PAUSE">>, NoArg)
            /\ UNCHANGED <<dev, mdSince, ntSince, ntUsed>>

\* compress_resume, lines 476-481: no readiness check; line 478 calls
\* through compress->ops, which is null on the sentinel
compress_resume(t, io) ==
    /\ Idle /\ Callable(t)
    /\ LET c == Handle(t) IN
       IF c.ops = "NULL" THEN Crash(t, "resume", NoArg)
       ELSE /\ IF io # "ok"
               THEN Return(t, oops(c, io, "cannot resume the stream"),
                           "resume", -1, io, <<"RESUME">>, NoArg)
               ELSE Return(t, c, "resume", 0, "none", <<"RESUME">>, NoArg)
            /\ UNCHANGED <<dev, mdSince, ntSince, ntUsed>>

\* compress_drain, lines 483-490
compress_drain(t, io) ==
    /\ Idle /\ Callable(t)
    /\ LET c == Handle(t) IN
       IF ~is_compress_running(c) THEN NotReady(t, "drain", NoArg)
       ELSE /\ IF io # "ok"
               THEN Return(t, oops(c, io, "cannot drain the stream"), "drain", -1,
                           io, <<"DRAIN">>, NoArg)
               ELSE Return(t, c, "drain", 0, "none", <<"DRAIN">>, NoArg)
            /\ UNCHANGED <<dev, mdSince, ntSince, ntUsed>>

\* one more successful consumer of the next-track flag
Used(n) == IF n < 2 THEN n + 1 ELSE n

\* a mutant of line 497: the check is dropped
next_track_signalled_unchecked(c) == TRUE

\* line 497: a next track was signalled
next_track_signalled(c) == c.next_track # 0

\* line 501: the successful partial drain consumes the next-track flag
partial_drain_done(c) == [c EXCEPT !.next_track = 0]

\* compress_partial_drain, lines 492-503
compress_partial_drain(t, io) ==
    /\ Idle /\ Callable(t)
    /\ LET c == Handle(t) IN
       IF ~is_compress_running(c) THEN NotReady(t, "partial_drain", NoArg)
       ELSE IF ~next_track_signalled(c)
       THEN /\ Return(t, oops(c, "EPERM", "next track not signalled"),
                      "partial_drain", -1, "EPERM", <<>>, NoArg)
            /\ UNCHANGED <<dev, mdSince, ntSince, ntUsed>>
       ELSE IF io # "ok"
       THEN /\ Return(t, oops(c, io, "cannot drain the stream"), "partial_drain",
                      -1, io, <<"PARTIAL_DRAIN">>, NoArg)
            /\ UNCHANGED <<dev, mdSince, ntSince, ntUsed>>
       ELSE /\ Return(t, partial_drain_done(c), "partial_drain", 0, "none",
                      <<"PARTIAL_DRAIN">>, NoArg)
            /\ ntSince' = FALSE
            /\ ntUsed' = Used(ntUsed)
            /\ UNCHANGED <<dev, mdSince>>

\* a mutant of lines 514-515: the metadata flag is not consumed
next_track_done_keeps_metadata(c) == [c EXCEPT !.next_track = 1]

\* lines 514-515: the next-track flag is set, the metadata flag consumed
next_track_done(c) == [c EXCEPT !.next_track = 1, !.gapless_metadata = 0]

\* compress_next_track, lines 505-517
compress_next_track(t, io) ==
    /\ Idle /\ Callable(t)
    /\ LET c == Handle(t) IN
       IF ~is_compress_running(c) THEN NotReady(t, "next_track", NoArg)
       ELSE IF c.gapless_metadata = 0
       THEN /\ Return(t, oops(c, "EPERM", "metadata not set"), "next_track", -1,
                      "EPERM", <<>>, NoArg)
            /\ UNCHANGED <<dev, mdSince, ntSince, ntUsed>>
       ELSE IF io # "ok"
       THEN /\ Return(t, oops(c, io, "cannot set next track"), "next_track", -1,
                      io, <<"NEXT_TRACK">>, NoArg)
            /\ UNCHANGED <<dev, mdSince, ntSince, ntUsed>>
       ELSE /\ Return(t, next_track_done(c), "next_track", 0, "none",
                      <<"NEXT_TRACK">>, NoArg)
            /\ mdSince' = FALSE
            /\ ntSince' = TRUE
            /\ ntUsed' = 0
            /\ UNCHANGED dev

\* compress_set_gapless_metadata, lines 519-546, with get_compress_version,
\* lines 140-149.  verIo, padIo, delayIo: the results of the version query
\* and of the two SET_METADATA calls.
compress_set_gapless_metadata(t, verIo, padIo, delayIo) ==
    /\ Idle /\ Callable(t)
    /\ LET c == Handle(t)
           \* get_compress_version: -1 when the ioctl fails
           version == IF verIo # "ok" THEN -1 ELSE dev.version
           \* last.arg.version: what the version query returned to this call
           arg == [NoArg EXCEPT !.version = version]
           c1 == IF verIo # "ok" THEN oops(c, verIo, "cant read version") ELSE c
           e1 == IF verIo # "ok" THEN verIo ELSE "none"
       IN
       IF ~is_compress_ready(c) THEN NotReady(t, "set_gapless_metadata", arg)
       ELSE IF version <= 0
       THEN \* lines 529-530: return -1, nothing more is recorded
            /\ Return(t, c1, "set_gapless_metadata", -1, e1, <<"VERSION">>, arg)
            /\ UNCHANGED <<dev, mdSince, ntSince, ntUsed>>
       ELSE IF version < GaplessVersion
       THEN /\ Return(t, oops(c1, "ENXIO", "gapless apis not supported in kernel"),
                      "set_gapless_metadata", -1, "ENXIO", <<"VERSION">>, arg)
            /\ UNCHANGED <<dev, mdSince, ntSince, ntUsed>>
       ELSE IF padIo # "ok"
       THEN /\ Return(t, oops(c1, padIo, "can't set metadata for stream"),
                      "set_gapless_metadata", -1, padIo,
                      <<"VERSION", "SET_METADATA">>, arg)
            /\ UNCHANGED <<dev, mdSince, ntSince, ntUsed>>
       ELSE IF delayIo # "ok"
       THEN /\ Return(t, oops(c1, delayIo, "can't set metadata for stream"),
                      "set_gapless_metadata", -1, delayIo,
                      <<"VERSION", "SET_METADATA", "SET_METADATA">>, arg)
            /\ UNCHANGED <<dev, mdSince, ntSince, ntUsed>>
       ELSE /\ Return(t, [c1 EXCEPT !.gapless_metadata = 1],
                      "set_gapless_metadata", 0, "none",
                      <<"VERSION", "SET_METADATA", "SET_METADATA">>, arg)
            /\ mdSince' = TRUE
            /\ UNCHANGED <<dev, ntSince, ntUsed>>

\* the null struct snd_codec * argument
NullCodec == 0

\* a mutant of line 642: the next-track flag is not consumed
codec_params_done_keeps_flag(c) == c

\* line 642: the pushed parameters consume the next-track flag
codec_params_done(c) == [c EXCEPT !.next_track = 0]

\* compress_set_codec_params, lines 627-644; `codec` is the codec of the
\* descriptor passed, or NullCodec for a null pointer
compress_set_codec_params(t, codec, io) ==
    /\ Idle /\ Callable(t)
    /\ LET c == Handle(t)
           arg == IF codec = NullCodec THEN NoArg
                  ELSE [NoArg EXCEPT !.config = Config(0, 0, codec)]
       IN
       IF ~is_compress_ready(c) \/ (c.next_track = 0)
       THEN NotReady(t, "set_codec_params", arg)
       ELSE IF codec = NullCodec
       THEN \* line 636: memcpy reads through the null pointer
            Crash(t, "set_codec_params", arg)
       ELSE LET \* line 637: the stored codec is overwritten before the ioctl
                c1 == [c EXCEPT !.config.codec = codec]
                \* lines 634-636
                params == [fragment_size |-> c.config.fragment_size,
                           fragments |-> c.config.fragments, codec |-> codec]
            IN
            IF io # "ok"
            THEN /\ Return(t, oops(c1, io, "cannot set device"), "set_codec_params",
                           -1, io, <<"SET_PARAMS">>, arg)
                 /\ UNCHANGED <<dev, mdSince, ntSince, ntUsed>>
            ELSE /\ Return(t, codec_params_done(c1), "set_codec_params", 0,
                           "none", <<"SET_PARAMS">>, arg)
                 /\ dev' = [dev EXCEPT !.params = params]
                 /\ ntUsed' = Used(ntUsed)
                 /\ UNCHANGED <<mdSince, ntSince>>

\* compress_nonblock, lines 600-603
compress_nonblock(nonblock) ==
    /\ Idle /\ live
    /\ Return("handle", [compress EXCEPT !.nonblocking = IF nonblock # 0 THEN 1 ELSE 0],
              "nonblock", 0, "none", <<>>, NoArg)
    /\ UNCHANGED <<dev, mdSince, ntSince, ntUsed>>

(***************************************************************************)
(* is_codec_supported, lines 566-593, with _is_codec_type_supported, lines *)
(* 151-172.  The probe uses no handle: it resolves the node, opens a       *)
(* connection of its own and reports its errors on the sentinel.  The call *)
(* returns true (last.ret = 1) or false (last.ret = 0); last.out.codecs    *)
(* is the codec list the device reported.                                  *)
(***************************************************************************)
\* what the environment answers during one probe: ops->open (line 581),
\* GET_CAPS (line 158) and the codec list of the caps
ProbeEnvs ==
    [open : {"ok"}, caps : {"ok"}, codecs : SUBSET Codecs]
    \cup [open : Errnos, caps : {"ok"}, codecs : {{}}]
    \cup [open : {"ok"}, caps : Errnos, codecs : {{}}]

\* lines 163-169: the codec's id is in the reported list
codec_found(codec, codecs) == codec \in codecs

is_codec_supported(codec, env) ==
    /\ Idle /\ dev.nodes < MaxNodes
    /\ LET arg == [NoArg EXCEPT !.config = Config(0, 0, codec)]
           \* line 573: the node is resolved
           devNode == [dev EXCEPT !.nodes = @ + 1]
       IN
       /\ IF env.open # "ok"
          THEN \* lines 582-586: return false, the node is not released
               /\ bad_compress' = oops(bad_compress, env.open, "cannot open card, device")
               /\ dev' = devNode
               /\ last' = Result("is_codec_supported", "none", 0, env.open,
                                 <<"get_dev_node", "open">>, arg, NoOut)
          ELSE IF env.caps # "ok"
          THEN \* lines 158-161, then lines 590-591
               /\ bad_compress' = oops(bad_compress, env.caps, "cannot get device caps")
               /\ dev' = dev
               /\ last' = Result("is_codec_supported", "none", 0, env.caps,
                                 <<"get_dev_node", "open", "GET_CAPS",
                                   "put_dev_node", "close">>, arg, NoOut)
          ELSE /\ last' = Result("is_codec_supported", "none",
                                 IF codec_found(codec, env.codecs) THEN 1 ELSE 0,
                                 "none",
                                 <<"get_dev_node", "open", "GET_CAPS",
                                   "put_dev_node", "close">>, arg,
                                 [NoOut EXCEPT !.codecs = env.codecs])
               /\ UNCHANGED <<bad_compress, dev>>
       /\ UNCHANGED <<compress, live, xfer, mdSince, ntSince, ntUsed>>

(***************************************************************************)
(* compress_get_hpointer, lines 285-304.  The widths are scaled: the       *)
(* kernel's frames and rate are RateMod-bounded, `time` wraps at TimeMod.  *)
(***************************************************************************)
\* lines 299-300: time = frames / rate; tv_sec = time
hpointer_sec(frames, rate) == (frames \div rate) % TimeMod

\* a mutant of lines 301-302: `time` is as narrow as the rate
hpointer_nsec_narrow(frames, rate) ==
    (((frames % rate) % RateMod) * NsecPerSec) % RateMod \div rate

\* lines 301-302: time = frames % rate; tv_nsec = time * 1000000000 / rate
hpointer_nsec(frames, rate) ==
    ((((frames % rate) % TimeMod) * NsecPerSec) % TimeMod) \div rate

\* Frames and Rates: the frame counts and sampling rates the device may report
compress_get_hpointer(t, Frames, Rates) ==
    /\ Idle /\ Callable(t)
    /\ LET c == Handle(t) IN
       IF ~is_compress_ready(c) THEN NotReady(t, "get_hpointer", NoArg)
       ELSE /\ \* line 294: the availability query fails
               \/ \E e \in Errnos :
                     Return(t, oops(c, e, "cannot get avail"), "get_hpointer", -1,
                            e, <<"AVAIL">>, NoArg)
               \* or it reports avail, pcm_io_frames and sampling_rate
               \/ \E frames \in Frames, rate \in Rates :
                     LET arg == [NoArg EXCEPT !.frames = frames, !.rate = rate] IN
                     IF 0 = rate
                     THEN Return(t, oops(c, "ENODATA", "sample rate unknown"),
                                 "get_hpointer", -1, "ENODATA", <<"AVAIL">>, arg)
                     ELSE /\ Store(t, c)
                          /\ last' = Result("get_hpointer", t, 0, "none",
                                 <<"AVAIL">>, arg,
                                 [NoOut EXCEPT
                                     !.avail = MaxAvail,
                                     !.tv_sec = hpointer_sec(frames, rate),
                                     !.tv_nsec = hpointer_nsec(frames, rate)])
                          /\ UNCHANGED <<live, xfer>>
            /\ UNCHANGED <<dev, mdSince, ntSince, ntUsed>>

(***************************************************************************)
(* compress_write, lines 322-383, and compress_read, lines 385-445.  The   *)
(* entry checks are one step; each iteration of the while loop is one      *)
(* step, with the device's answers of that iteration as inputs.            *)
(***************************************************************************)
PollEvents == {"POLLERR", "POLLRDY", "POLLHUP"}

\* what ops->poll may leave: a failure (ret < 0) leaves errno and does not
\* write revents, which the caller never initialised, so any bits may be
\* read; a timeout (ret = 0) reports no event; ret > 0 reports some event.
PollResults ==
    [ret : {-1}, errno : Errnos, revents : SUBSET PollEvents]
    \cup [ret : {0}, errno : {"none"}, revents : {{}}]
    \cup [ret : {1}, errno : {"none"}, revents : (SUBSET PollEvents) \ {{}}]

\* what ops->write / ops->read may return for a request of n bytes
TransferResults(n) ==
    [ret : 0..n, errno : {"none"}] \cup [ret : {-1}, errno : Errnos]

\* lines 357 and 373 (418 and 434): the failure a pause causes
is_pause(errno) == errno = "EBADFD"

\* a mutant of lines 373 and 434: every transfer failure is taken for a pause
transfer_is_pause_any(errno) == TRUE

\* lines 373 and 434: the transfer failed because the stream is paused
transfer_is_pause(errno) == is_pause(errno)

\* a mutant of lines 347 and 408: nonblocking mode is not looked at
returns_at_once_never(c) == FALSE

\* lines 347 and 408: nonblocking mode returns instead of polling
returns_at_once(c) == c.nonblocking # 0

\* a mutant of lines 345 and 404: either shortage makes the call wait
must_wait_either(avail, frag_size, size) == (avail < frag_size) \/ (avail < size)

\* lines 345 and 404: less than a fragment and less than the rest is available
must_wait(avail, frag_size, size) == (avail < frag_size) /\ (avail < size)

\* history: the availability reported in this iteration is at least
\* min(frag_size, size)
enough(avail) ==
    (avail >= compress.config.fragment_size) \/ (avail >= xfer.size)

\* the call returns `ret`.  last.out keeps what the device did in the last
\* iteration: `stop` names the event that ended the loop, `avail` is the
\* availability it reported (Unwritten when the query failed), `rest` the
\* bytes still asked for when the iteration began, `moved` the bytes the
\* sub-transfers of the call moved.
TransferReturn(c, ret, err, polled, stop, avail) ==
    LET full == /\ xfer.full /\ enough(avail)
                /\ stop \notin {"avail_failed", "transfer_paused", "transfer_failed"}
    IN
    /\ compress' = c
    /\ xfer' = IdleXfer
    /\ last' = Result(xfer.dir, "handle", ret, err, <<>>,
                      [NoArg EXCEPT !.size = xfer.req],
                      [NoOut EXCEPT !.polled = polled, !.moved = xfer.total,
                                    !.rest = xfer.size, !.avail = avail,
                                    !.stop = stop, !.full = full,
                                    !.trace = IF full THEN xfer.trace ELSE <<>>])
    /\ UNCHANGED <<live, bad_compress, dev, mdSince, ntSince, ntUsed>>

\* entry of compress_write (lines 328-335) and compress_read (lines 391-398).
\* Lines 328 and 391 load frag_size through compress->config before any
\* check; on the sentinel config is null.  The value is used in the loop
\* only, so a build either faults at the load or, having moved the load to
\* its use, goes on to the checks, which fail on a handle without flags.
TransferEnter(t, dir, flag, size) ==
    /\ Idle /\ Callable(t)
    /\ LET c == Handle(t)
           arg == [NoArg EXCEPT !.size = size]
       IN
       \/ /\ c.config.null
          /\ Crash(t, dir, arg)
       \/ /\ (~c.config.null) \/ (flag \notin c.flags) \/ ~is_compress_ready(c)
          /\ IF flag \notin c.flags
             THEN /\ Return(t, oops(c, "EINVAL", "Invalid flag set"), dir,
                            -1, "EINVAL", <<>>, arg)
                  /\ UNCHANGED <<dev, mdSince, ntSince, ntUsed>>
             ELSE IF ~is_compress_ready(c)
             THEN NotReady(t, dir, arg)
             ELSE IF size = 0
             THEN \* while (size) is not entered
                  /\ last' = Result(dir, t, 0, "none", <<>>, arg,
                                    [NoOut EXCEPT !.stop = "done", !.full = TRUE])
                  /\ UNCHANGED <<compress, live, bad_compress, dev, xfer,
                                 mdSince, ntSince, ntUsed>>
             ELSE \* the loop runs on the heap handle (the sentinel is never ready)
                  /\ t = "handle"
                  /\ xfer' = [pc |-> "loop", dir |-> dir, req |-> size,
                              size |-> size, total |-> 0, polled |-> FALSE,
                              tick |-> 0, full |-> TRUE, trace |-> <<>>]
                  /\ last' = Result(dir, t, 0, "none", <<>>, arg, NoOut)
                  /\ UNCHANGED <<compress, live, bad_compress, dev, mdSince, ntSince, ntUsed>>

compress_write(t, size) == TransferEnter(t, "write", COMPRESS_IN, size)

compress_read(t, size) == TransferEnter(t, "read", COMPRESS_OUT, size)

\* the sub-transfer of lines 365-380 (426-441): ops->write / ops->read of
\* min(size, avail) bytes, then the loop test
SubTransfer(dir, avail, polled) ==
    LET c == compress
        size == xfer.size
        to_xfer == IF size > avail THEN avail ELSE size
    IN
    \E xres \in TransferResults(to_xfer) :
        LET full == xfer.full /\ enough(avail) /\ (xres.ret = to_xfer)
            trace == IF full
                     THEN Append(xfer.trace, [avail |-> avail, moved |-> xres.ret])
                     ELSE <<>>
        IN
        IF xres.ret < 0
        THEN IF transfer_is_pause(xres.errno)
             THEN TransferReturn(c, xfer.total, "none", polled,
                      IF is_pause(xres.errno) THEN "transfer_paused"
                                              ELSE "transfer_failed", avail)
             ELSE TransferReturn(oops(c, xres.errno, "transfer failed!"), -1,
                                 xres.errno, polled, "transfer_failed", avail)
        ELSE IF size - xres.ret = 0
        THEN \* while (size) ends: return total
             /\ compress' = c
             /\ xfer' = IdleXfer
             /\ last' = Result(dir, "handle", xfer.total + xres.ret, "none",
                               <<>>, [NoArg EXCEPT !.size = xfer.req],
                               [NoOut EXCEPT !.polled = polled,
                                             !.moved = xfer.total + xres.ret,
                                             !.rest = size, !.avail = avail,
                                             !.stop = "done", !.full = full,
                                             !.trace = trace])
             /\ UNCHANGED <<live, bad_compress, dev, mdSince, ntSince, ntUsed>>
        ELSE /\ xfer' = [xfer EXCEPT !.size = size - xres.ret,
                                     !.total = @ + xres.ret,
                                     !.polled = polled,
                                     !.tick = 1 - @,
                                     !.full = full,
                                     !.trace = trace]
             /\ UNCHANGED <<compress, live, bad_compress, dev, last,
                            mdSince, ntSince, ntUsed>>

\* lines 350-363 (411-424): the blocking wait and what follows it
PollWait(dir, avail) ==
    LET c == compress IN
    \E poll \in PollResults :
        IF "POLLERR" \in poll.revents
        THEN TransferReturn(oops(c, "EIO", "poll returned error!"), -1, "EIO", TRUE,
                 IF poll.ret > 0 THEN "poll_error_event"
                 ELSE IF is_pause(poll.errno) THEN "poll_paused"
                 ELSE "poll_failed", avail)
        ELSE IF (poll.ret = 0) \/ (poll.ret < 0 /\ is_pause(poll.errno))
        THEN TransferReturn(c, xfer.total, "none", TRUE,
                 IF poll.ret = 0 THEN "poll_timeout" ELSE "poll_paused", avail)
        ELSE IF poll.ret < 0
        THEN TransferReturn(oops(c, poll.errno, "poll error"), -1, poll.errno,
                            TRUE, "poll_failed", avail)
        ELSE IF "POLLRDY" \in poll.revents
        THEN \* continue: availability is asked again
             /\ xfer' = [xfer EXCEPT !.polled = TRUE, !.tick = 1 - @,
                                     !.full = @ /\ enough(avail),
                                     !.trace = IF xfer.full /\ enough(avail)
                                               THEN @ ELSE <<>>]
             /\ UNCHANGED <<compress, live, bad_compress, dev, last,
                            mdSince, ntSince, ntUsed>>
        ELSE SubTransfer(dir, avail, TRUE)

\* one iteration of the loop, lines 338-381 (400-442)
TransferIter(dir) ==
    /\ xfer.pc = "loop" /\ xfer.dir = dir
    /\ LET c == compress IN
       \* line 339 (401): the availability query fails
       \/ \E e \in Errnos :
             TransferReturn(oops(c, e, "cannot get avail"), -1, e, xfer.polled,
                            "avail_failed", Unwritten)
       \* or it reports avail
       \/ \E avail \in 0..MaxAvail :
             IF must_wait(avail, c.config.fragment_size, xfer.size)
             THEN IF returns_at_once(c)
                  THEN TransferReturn(c, xfer.total, "none", xfer.polled,
                                      "nonblock", avail)
                  ELSE PollWait(dir, avail)
             ELSE SubTransfer(dir, avail, xfer.polled)

\* the loop of compress_write, lines 338-382
compress_write_loop == TransferIter("write")

\* the loop of compress_read, lines 400-444
compress_read_loop == TransferIter("read")

(***************************************************************************)
(* compress_get_tstamp, lines 306-320, and compress_wait, lines 605-625.   *)
(***************************************************************************)
\* Frames and Rates: the frame counts and sampling rates the device may report
compress_get_tstamp(t, Frames, Rates) ==
    /\ Idle /\ Callable(t)
    /\ LET c == Handle(t) IN
       IF ~is_compress_ready(c) THEN NotReady(t, "get_tstamp", NoArg)
       ELSE /\ \* line 314: the timestamp query fails
               \/ \E e \in Errnos :
                     Return(t, oops(c, e, "cannot get tstamp"), "get_tstamp", -1,
                            e, <<"TSTAMP">>, NoArg)
               \* or it reports pcm_io_frames and sampling_rate
               \/ \E frames \in Frames, rate \in Rates :
                     /\ Store(t, c)
                     /\ last' = Result("get_tstamp", t, 0, "none", <<"TSTAMP">>,
                            [NoArg EXCEPT !.frames = frames, !.rate = rate],
                            [NoOut EXCEPT !.samples = frames,
                                          !.sampling_rate = rate])
                     /\ UNCHANGED <<live, xfer>>
            /\ UNCHANGED <<dev, mdSince, ntSince, ntUsed>>

\* compress_wait: no readiness check; line 612 calls through compress->ops,
\* which is null on the sentinel
compress_wait(t) ==
    /\ Idle /\ Callable(t)
    /\ LET c == Handle(t)
           Waited(c2, ret, err) ==
               /\ Store(t, c2)
               /\ last' = Result("wait", t, ret, err, <<"poll">>, NoArg,
                                 [NoOut EXCEPT !.polled = TRUE])
               /\ UNCHANGED <<live, xfer>>
       IN
       IF c.ops = "NULL" THEN Crash(t, "wait", NoArg)
       ELSE /\ \E poll \in PollResults :
                  IF poll.ret > 0 /\ "POLLERR" \in poll.revents
                  THEN Waited(oops(c, "EIO", "poll returned error!"), -1, "EIO")
                  ELSE IF poll.ret > 0 /\ "POLLRDY" \in poll.revents
                  THEN Waited(c, 0, "none")
                  ELSE IF poll.ret = 0
                  THEN Waited(oops(c, "ETIME", "poll timed out"), -1, "ETIME")
                  ELSE IF poll.ret < 0
                  THEN Waited(oops(c, poll.errno, "poll error"), -1, poll.errno)
                  ELSE Waited(oops(c, "EIO", "poll signalled unhandled event"),
                              -1, "EIO")
            /\ UNCHANGED <<dev, mdSince, ntSince, ntUsed>>

(***************************************************************************)
(* Callers.  A handle is used by one thread, one call at a time (section 5 *)
(* of the specification).  Each specification below is one caller: the     *)
(* operations it uses, on which handle, with which arguments, against      *)
(* which answers of the device.  The operations are the same everywhere.   *)
(***************************************************************************)

(* SpecControl: a caller that opens a stream and drives the stream-control *)
(* and gapless operations on it in any order.                              *)
ControlOpen ==
    \E codec \in Codecs : compress_open({COMPRESS_IN}, Config(0, 0, codec), OpenOk)

ControlClose == compress_close("handle")

ControlStart == \E io \in IoctlResults : compress_start("handle", io)

ControlStop == \E io \in IoctlResults : compress_stop("handle", io)

ControlPause == \E io \in IoctlResults : compress_pause("handle", io)

ControlResume == \E io \in IoctlResults : compress_resume("handle", io)

ControlDrain == \E io \in IoctlResults : compress_drain("handle", io)

ControlPartialDrain == \E io \in IoctlResults : compress_partial_drain("handle", io)

ControlNextTrack == \E io \in IoctlResults : compress_next_track("handle", io)

ControlSetGaplessMetadata ==
    \E verIo \in IoctlResults, padIo \in IoctlResults, delayIo \in IoctlResults :
        compress_set_gapless_metadata("handle", verIo, padIo, delayIo)

ControlSetCodecParams ==
    \E codec \in Codecs \cup {NullCodec}, io \in IoctlResults :
        compress_set_codec_params("handle", codec, io)

ControlNext ==
    \/ ControlOpen
    \/ ControlClose
    \/ ControlStart
    \/ ControlStop
    \/ ControlPause
    \/ ControlResume
    \/ ControlDrain
    \/ ControlPartialDrain
    \/ ControlNextTrack
    \/ ControlSetGaplessMetadata
    \/ ControlSetCodecParams

SpecControl == Init /\ [][ControlNext]_vars

(***************************************************************************)
(* Properties of the gapless sequence (SpecControl).  In SpecControl every *)
(* step is one whole call, so last'.op names the call a step makes.        *)
(***************************************************************************)

\* C1: compress_next_track succeeds only if the stream is running and
\* compress_set_gapless_metadata has succeeded since the last successful
\* compress_next_track (or since open); a success sets next_track and clears
\* gapless_metadata; with no such set_gapless_metadata the call fails without
\* issuing NEXT_TRACK, with "metadata not set" when the stream is running.
C1_NextTrackNeedsMetadata ==
    [][(last'.op = "next_track") =>
         /\ (last'.ret = 0) =>
               /\ is_compress_running(compress)
               /\ mdSince
               /\ compress'.next_track = 1
               /\ compress'.gapless_metadata = 0
               /\ last'.calls = <<"NEXT_TRACK">>
         /\ (~mdSince) =>
               /\ last'.ret = -1
               /\ last'.calls = <<>>
               /\ is_compress_running(compress) =>
                     compress'.error = [msg |-> "metadata not set", e |-> "EPERM"]
      ]_vars

\* a second next_track right after a successful one has failed with
\* "metadata not set"
C1_Witness ==
    /\ live /\ last.op = "next_track" /\ last.ret = -1
    /\ compress.error.msg = "metadata not set"
    /\ compress.next_track = 1 /\ ntSince /\ ~mdSince

\* C2: compress_partial_drain fails, issuing no PARTIAL_DRAIN, unless the stream
\* is running and a compress_next_track has succeeded since the last successful
\* compress_partial_drain; a success clears next_track, a failure leaves the
\* flag as it was.
C2_PartialDrainNeedsNextTrack ==
    [][(last'.op = "partial_drain") =>
         /\ (last'.ret = 0) =>
               /\ is_compress_running(compress)
               /\ ntSince
               /\ compress.next_track = 1
               /\ compress'.next_track = 0
               /\ last'.calls = <<"PARTIAL_DRAIN">>
         /\ (~(is_compress_running(compress) /\ ntSince)) =>
               /\ last'.ret = -1
               /\ last'.calls = <<>>
         /\ (last'.ret # 0) => (compress'.next_track = compress.next_track)
      ]_vars

\* a partial drain has succeeded and consumed the flag
C2_Witness ==
    /\ live /\ last.op = "partial_drain" /\ last.ret = 0
    /\ compress.next_track = 0 /\ ~ntSince

\* C3: compress_set_gapless_metadata on a ready handle whose device reports a
\* version below 0.1.1 fails with ENXIO "not supported", issues no
\* SET_METADATA and leaves gapless_metadata false; the flag changes only when
\* the version check and both metadata updates succeed.
C3_OldVersionNotSupported ==
    [][(last'.op = "set_gapless_metadata" /\ is_compress_ready(compress)) =>
         /\ (0 <= last'.arg.version /\ last'.arg.version < GaplessVersion) =>
               /\ last'.ret = -1
               /\ last'.err = "ENXIO"
               /\ compress'.error.e = "ENXIO"
               /\ last'.calls = <<"VERSION">>
               /\ compress'.gapless_metadata = 0
         /\ (last'.ret # 0) =>
               (compress'.gapless_metadata = compress.gapless_metadata)
         /\ (last'.ret = 0) =>
               /\ last'.arg.version >= GaplessVersion
               /\ last'.calls = <<"VERSION", "SET_METADATA", "SET_METADATA">>
               /\ compress'.gapless_metadata = 1
      ]_vars

\* the lifecycle transitions
LifecycleOps == {"start", "stop", "pause", "resume", "drain", "partial_drain",
                 "next_track", "set_gapless_metadata", "set_codec_params"}

\* C14: when the device control call of a lifecycle transition fails (the
\* ioctl leaves an errno), the operation returns a negative result with that
\* errno recorded on the handle and leaves the handle's state unchanged:
\* running, gapless_metadata, next_track and the stored configuration
\* (fragment size, fragment count, codec) are as before the call.
C14_FailedControlKeepsState ==
    [][(last'.op \in LifecycleOps /\ last'.t = "handle" /\ last'.err \in Errnos) =>
         /\ last'.ret < 0
         /\ compress'.error.e = last'.err
         /\ compress'.running = compress.running
         /\ compress'.gapless_metadata = compress.gapless_metadata
         /\ compress'.next_track = compress.next_track
         /\ compress'.config = compress.config
      ]_vars

\* C16: compress_set_codec_params called on a handle that is not running
\* (no start has succeeded) or with a null codec returns an error without
\* issuing SET_PARAMS; when it pushes parameters, the fragment size and
\* fragment count sent are the negotiated ones and the stored fragment size
\* and fragment count are not changed.
C16_CodecParamsNeedsRunningAndCodec ==
    [][(last'.op = "set_codec_params" /\ last'.t = "handle") =>
         /\ ((~is_compress_running(compress)) \/ last'.arg.config.null) =>
               /\ xfer'.pc # "crashed"
               /\ last'.ret = -1
               /\ last'.err # "none"
               /\ last'.calls = <<>>
         /\ (last'.ret = 0) =>
               /\ last'.calls = <<"SET_PARAMS">>
               /\ dev'.params.fragment_size = compress.config.fragment_size
               /\ dev'.params.fragments = compress.config.fragments
               /\ dev'.params.codec = last'.arg.config.codec
         /\ compress'.config.fragment_size = compress.config.fragment_size
         /\ compress'.config.fragments = compress.config.fragments
      ]_vars

\* C18: compress_stop does not reset running: after a successful stop
\* is_compress_running is still true; while the handle is open a set
\* running flag stays set through every operation, so later pause, drain
\* and stop calls reach the device and next_track and partial_drain are not
\* refused as "device not ready".
C18_StopKeepsRunning ==
    /\ [][(last'.op = "stop" /\ last'.ret = 0) =>
            (is_compress_running(compress) /\ is_compress_running(compress'))
         ]_vars
    /\ [][(live /\ live' /\ compress.running # 0) => (compress'.running # 0)]_vars
    /\ [][(live /\ compress.running # 0 /\ last'.op \in {"pause", "drain", "stop"}) =>
            (Len(last'.calls) = 1)
         ]_vars
    /\ [][(live /\ compress.running # 0
             /\ last'.op \in {"next_track", "partial_drain"}) =>
            (last'.err # "ENODEV")
         ]_vars

\* a stop has succeeded and the stream still counts as running
C18_Witness ==
    /\ live /\ last.op = "stop" /\ last.ret = 0 /\ last.calls = <<"STOP">>
    /\ is_compress_running(compress)

\* C20: the next-track flag is a one-shot latch: after one successful
\* compress_next_track at most one of compress_partial_drain and
\* compress_set_codec_params succeeds before compress_next_track succeeds
\* again; a partial_drain that follows a successful set_codec_params fails
\* with "next track not signalled", a set_codec_params that follows a
\* successful partial_drain fails without issuing SET_PARAMS.
C20_NextTrackOneShot ==
    /\ [](ntUsed <= 1)
    /\ [][(last.op = "set_codec_params" /\ last.ret = 0
             /\ last'.op = "partial_drain") =>
            /\ last'.ret = -1
            /\ last'.calls = <<>>
            /\ compress'.error = [msg |-> "next track not signalled", e |-> "EPERM"]
         ]_vars
    /\ [][(last.op = "partial_drain" /\ last.ret = 0
             /\ last'.op = "set_codec_params") =>
            /\ last'.ret = -1
            /\ last'.calls = <<>>
         ]_vars

\* a partial_drain was refused because set_codec_params had consumed the
\* flag of the last next_track
C20_Witness ==
    /\ live /\ last.op = "partial_drain" /\ last.ret = -1
    /\ compress.error.msg = "next track not signalled"
    /\ ntSince /\ ntUsed = 1

\* C21: in every reachable state of an opened handle, a set next-track flag
\* implies that the handle is running: the flag is clear after open, goes
\* from clear to set only in a successful compress_next_track on a running
\* handle, and running is not cleared while the handle is open.  (The
\* gapless-metadata flag carries no such implication: C21_MetadataNotStarted
\* is reachable.)
C21_NextTrackImpliesRunning ==
    /\ [](live => ((compress.next_track # 0) =>
                     (compress.fd >= 0 /\ compress.running # 0)))
    /\ [][(last'.op = "open" /\ last'.ret = 0) =>
            (compress'.next_track = 0 /\ compress'.running = 0)
         ]_vars
    /\ [][(live /\ live' /\ compress.next_track = 0 /\ compress'.next_track # 0) =>
            /\ last'.op = "next_track" /\ last'.ret = 0
            /\ compress.running # 0
         ]_vars
    /\ [][(live /\ live' /\ compress.running # 0) => (compress'.running # 0)]_vars

\* the next-track flag is set on a started stream
C21_Witness ==
    /\ live /\ compress.next_track = 1 /\ compress.running = 1
    /\ last.op = "next_track" /\ last.ret = 0

\* the gapless-metadata flag is set on a handle that was never started
C21_MetadataNotStarted ==
    /\ live /\ compress.gapless_metadata = 1 /\ compress.running = 0
    /\ last.op = "set_gapless_metadata" /\ last.ret = 0

(***************************************************************************)
(* SpecOpen: a caller that opens with any flags and configuration against  *)
(* a device that may fail at any step, closes what it got (the handle or   *)
(* the sentinel), and starts the stream in between.                        *)
(***************************************************************************)
OpenAny ==
    \E flags \in FlagSets, config \in UserConfigs \cup {NullConfig},
       env \in OpenEnvs :
        compress_open(flags, config, env)

CloseAny == \E t \in Targets : compress_close(t)

StartAny == \E t \in Targets, io \in IoctlResults : compress_start(t, io)

OpenNext ==
    \/ OpenAny
    \/ CloseAny
    \/ StartAny

SpecOpen == InitCurrent /\ [][OpenNext]_vars

\* the caller asked for the device's defaults
dont_care(config) == (config.fragment_size = 0) \/ (config.fragments = 0)

\* C4: after a successful compress_open with fragment_size = 0 or
\* fragments = 0, the stored configuration and the parameters pushed with
\* SET_PARAMS carry the device's min_fragment_size and max_fragments; with
\* both values non-zero the caller's values are stored and pushed unchanged.
C4_NegotiatedFragments ==
    (last.op = "open" /\ last.ret = 0) =>
        /\ dont_care(last.arg.config) =>
              /\ compress.config.fragment_size = DevMinFragmentSize
              /\ compress.config.fragments = DevMaxFragments
              /\ dev.params.fragment_size = DevMinFragmentSize
              /\ dev.params.fragments = DevMaxFragments
        /\ (~dont_care(last.arg.config)) =>
              /\ compress.config.fragment_size = last.arg.config.fragment_size
              /\ compress.config.fragments = last.arg.config.fragments
              /\ dev.params.fragment_size = last.arg.config.fragment_size
              /\ dev.params.fragments = last.arg.config.fragments
        /\ compress.config.codec = last.arg.config.codec
        /\ dev.params.codec = last.arg.config.codec

\* an open that asked for a fragment size but no fragment count succeeded
C4_Witness ==
    /\ last.op = "open" /\ last.ret = 0 /\ live
    /\ last.arg.config.fragment_size = UserFragmentSize
    /\ last.arg.config.fragments = 0
    /\ compress.config.fragment_size = DevMinFragmentSize

\* C5: compress_open with a non-null configuration and flags naming neither
\* COMPRESS_IN nor COMPRESS_OUT returns the sentinel and touches no device:
\* no node resolution, no backend open, no control call, no backend close.
C5_NoDirectionNoDevice ==
    [][(last'.op = "open" /\ ~last'.arg.config.null
            /\ last'.arg.flags \cap {COMPRESS_IN, COMPRESS_OUT} = {}) =>
         /\ last'.ret = -1
         /\ last'.t = "bad"
         /\ last'.calls = <<>>
         /\ dev' = dev
         /\ live' = FALSE
      ]_vars

\* an open without a direction was refused with its own message
C5_Witness ==
    /\ last.op = "open" /\ last.ret = -1 /\ last.arg.flags = {}
    /\ ~last.arg.config.null
    /\ bad_compress.error.msg = "can't deduce device direction from given flags"

\* C6: compress_close on the sentinel is a no-op, any number of times and
\* after any failed opens: no backend close, no node release, nothing freed,
\* and the sentinel stays not ready (fd invalid) and not running.
C6_CloseSentinelNoop ==
    /\ [][(last'.op = "close" /\ last'.t = "bad") =>
            /\ last'.calls = <<>>
            /\ UNCHANGED <<compress, live, bad_compress, dev>>
         ]_vars
    /\ [](~is_compress_ready(bad_compress) /\ ~is_compress_running(bad_compress)
            /\ bad_compress.running = 0)

\* the sentinel was closed after a failed open that had touched the device
C6_Witness ==
    /\ last.op = "close" /\ last.t = "bad"
    /\ bad_compress.error.msg = "cannot set device"
    /\ bad_compress.fd = -1

\* how often the backend call `x` was made during the last call
Count(calls, x) == Cardinality({i \in DOMAIN calls : calls[i] = x})

\* C11: a failing compress_open that resolved the device node releases the
\* node exactly once and closes a connection it opened exactly once before
\* it returns the sentinel: no failing open leaves a node or a connection
\* held.
C11_OpenFailureReleases ==
    [][(last'.op = "open" /\ last'.ret = -1) =>
         /\ dev'.nodes = dev.nodes
         /\ dev'.conns = dev.conns
         /\ Count(last'.calls, "put_dev_node") = Count(last'.calls, "get_dev_node")
         /\ Count(last'.calls, "close") = Count(last'.calls, "GET_CAPS")
      ]_vars

\* the message and errno a failing compress_open is to leave on the
\* sentinel, by the step that failed (told from the call's arguments, the
\* backend calls it made and the errno it left)
OpenFailureError(r) ==
    IF r.arg.config.null
    THEN [msg |-> "passed bad config", e |-> "EINVAL"]
    ELSE IF r.calls = <<>> /\ r.err # "EINVAL"
    THEN [msg |-> "cannot allocate compress object", e |-> "ENOMEM"]
    ELSE IF r.calls = <<>>
    THEN [msg |-> "can't deduce device direction from given flags", e |-> "EINVAL"]
    ELSE IF Count(r.calls, "GET_CAPS") = 0
    THEN [msg |-> "cannot open card device", e |-> r.err]
    ELSE IF Count(r.calls, "SET_PARAMS") = 0
    THEN [msg |-> "cannot get device caps", e |-> r.err]
    ELSE [msg |-> "cannot set device", e |-> r.err]

\* C12: after every failing compress_open, whatever the step that failed,
\* the sentinel's error buffer holds the message of that failure (written by
\* that call), not the text of an earlier failure.
C12_SentinelErrorPerFailure ==
    [][(last'.op = "open" /\ last'.ret = -1) =>
         bad_compress'.error = OpenFailureError(last')
      ]_vars

(***************************************************************************)
(* SpecTransfer: a caller that opens a stream in either direction, with    *)
(* the device's fragment size or its own, switches between blocking and    *)
(* nonblocking mode and writes and reads requests of every size up to      *)
(* MaxSize, against a device free to report any availability, any poll     *)
(* result and any transfer result in every iteration.                      *)
(***************************************************************************)
TransferOpen ==
    \E flags \in FlagSets \ {{}},
       config \in {Config(0, 0, 1), Config(UserFragmentSize, UserFragments, 1)} :
        compress_open(flags, config, OpenOk)

TransferClose == compress_close("handle")

TransferNonblock == \E nonblock \in {0, 1} : compress_nonblock(nonblock)

TransferWrite == \E size \in 0..MaxSize : compress_write("handle", size)

TransferRead == \E size \in 0..MaxSize : compress_read("handle", size)

TransferNext ==
    \/ TransferOpen
    \/ TransferClose
    \/ TransferNonblock
    \/ TransferWrite
    \/ TransferRead
    \/ compress_write_loop
    \/ compress_read_loop

SpecTransfer == InitCurrent /\ [][TransferNext]_vars

\* a compress_write / compress_read call on the heap handle has returned
TransferDone == Idle /\ live /\ last.op \in {"write", "read"}

\* the events that end the loop because of a pause (lines 355-358, 372-374)
PauseStops == {"poll_timeout", "poll_paused", "transfer_paused"}

\* the events that are errors of the device
ErrorStops == {"avail_failed", "poll_error_event", "poll_failed", "transfer_failed"}

\* C7: in nonblocking mode compress_write / compress_read never poll; when
\* the availability is below one fragment and below the rest of the request,
\* the call returns at once the bytes moved so far, between 0 and the
\* requested size, and records no error.
C7_NonblockingNeverPolls ==
    /\ (xfer.pc = "loop" /\ compress.nonblocking = 1) => ~xfer.polled
    /\ (TransferDone /\ compress.nonblocking = 1) =>
          /\ ~last.out.polled
          /\ (/\ last.out.avail >= 0
              /\ last.out.rest > 0
              /\ last.out.avail < compress.config.fragment_size
              /\ last.out.avail < last.out.rest) =>
                 /\ last.out.stop = "nonblock"
                 /\ last.ret = last.out.moved
                 /\ last.ret = last.arg.size - last.out.rest
                 /\ 0 <= last.ret /\ last.ret <= last.arg.size
                 /\ last.err = "none"

\* a nonblocking write returned short after a first sub-transfer
C7_Witness ==
    /\ TransferDone /\ compress.nonblocking = 1 /\ last.out.stop = "nonblock"
    /\ last.ret > 0 /\ last.ret < last.arg.size

\* C8: in blocking mode, when ops->poll or ops->write / ops->read fails with
\* EBADFD, the call stops the loop and returns the non-negative count of the
\* bytes moved before the pause, and records no error.
C8_PauseReturnsCount ==
    (TransferDone /\ compress.nonblocking = 0
        /\ last.out.stop \in {"poll_paused", "transfer_paused"}) =>
        /\ last.ret >= 0
        /\ last.ret = last.out.moved
        /\ last.err = "none"

\* C9: compress_write / compress_read return the bytes moved; the count is
\* below the requested size only in nonblocking mode or after a pause stop;
\* every error of the device (availability query, poll error event, other
\* poll failure, other transfer failure) returns -1 with the error recorded
\* on the handle, also after earlier sub-transfers moved bytes.
C9_ShortOnlyOnPauseOrNonblock ==
    TransferDone =>
        /\ (last.ret >= 0) => (last.ret = last.out.moved /\ last.err = "none")
        /\ (last.ret >= 0 /\ last.ret < last.arg.size) =>
              \/ compress.nonblocking = 1
              \/ last.out.stop \in PauseStops
        /\ (last.out.stop \in ErrorStops) =>
              /\ last.ret = -1
              /\ last.err # "none"
              /\ compress.error.e = last.err

\* a transfer failed with an error after a sub-transfer had moved bytes
C9_Witness ==
    /\ TransferDone /\ last.out.stop = "transfer_failed"
    /\ last.out.moved > 0 /\ last.ret = -1 /\ compress.error.msg = "transfer failed!"

(***************************************************************************)
(* SpecHpointer: a caller that asks for the hardware pointer, on the open  *)
(* handle and on the sentinel, against a device reporting every frame      *)
(* count and every sampling rate of the (scaled) width.                    *)
(***************************************************************************)
HpointerOpen == compress_open({COMPRESS_IN}, Config(0, 0, 1), OpenOk)

HpointerClose == compress_close("handle")

HpointerGet ==
    \E t \in Targets :
        compress_get_hpointer(t, 0..(RateMod - 1), 0..(RateMod - 1))

HpointerNext ==
    \/ HpointerOpen
    \/ HpointerClose
    \/ HpointerGet

SpecHpointer == InitCurrent /\ [][HpointerNext]_vars

\* the outputs *avail and *tstamp of the last call were not written
OutputsUnwritten ==
    /\ last.out.avail = Unwritten
    /\ last.out.tv_sec = Unwritten
    /\ last.out.tv_nsec = Unwritten

\* C10: compress_get_hpointer on a ready handle whose availability query
\* reports frames f and rate r > 0 returns seconds = f div r and
\* nanoseconds = ((f mod r) * NsecPerSec) div r, with 0 <= nanoseconds <
\* NsecPerSec and the product within the width of `time`; with r = 0 it
\* fails with "sample rate unknown" and writes no output; on a handle that
\* is not ready it fails without querying the device.
C10_HpointerTimestamp ==
    (last.op = "get_hpointer") =>
        LET f == last.arg.frames
            r == last.arg.rate
            reported == (last.calls = <<"AVAIL">>) /\ (last.err \notin Errnos)
        IN
        /\ (last.t = "handle" /\ reported /\ r > 0) =>
              /\ last.ret = 0
              /\ last.out.tv_sec = f \div r
              /\ last.out.tv_nsec = ((f % r) * NsecPerSec) \div r
              /\ 0 <= last.out.tv_nsec /\ last.out.tv_nsec < NsecPerSec
              /\ (f % r) * NsecPerSec < TimeMod
              /\ last.out.avail # Unwritten
        /\ (last.t = "handle" /\ reported /\ r = 0) =>
              /\ last.ret = -1
              /\ last.err = "ENODATA"
              /\ compress.error = [msg |-> "sample rate unknown", e |-> "ENODATA"]
              /\ OutputsUnwritten
        /\ (last.t = "bad") =>
              /\ last.ret = -1
              /\ last.calls = <<>>
              /\ OutputsUnwritten

\* a timestamp whose product (f mod r) * NsecPerSec needs more than the
\* width of the rate
C10_Witness ==
    /\ last.op = "get_hpointer" /\ last.t = "handle" /\ last.ret = 0
    /\ (last.arg.frames % last.arg.rate) * NsecPerSec >= RateMod
    /\ last.out.tv_nsec > 0 /\ last.out.tv_sec > 0

(***************************************************************************)
(* SpecProbe: a caller that probes the device for codecs, before, between  *)
(* and after opening and closing a stream, against a device that may fail  *)
(* at any step of the probe and of the open.                               *)
(***************************************************************************)
ProbeOpen == \E env \in OpenEnvs : compress_open({COMPRESS_OUT}, Config(0, 0, 1), env)

ProbeClose == compress_close("handle")

ProbeCodec == \E codec \in Codecs, env \in ProbeEnvs : is_codec_supported(codec, env)

ProbeNext ==
    \/ ProbeOpen
    \/ ProbeClose
    \/ ProbeCodec

SpecProbe == InitCurrent /\ [][ProbeNext]_vars

\* C13: is_codec_supported releases what it acquired on every return path:
\* the resolved node is released exactly once and a connection that was
\* opened is closed exactly once; it returns true exactly when the
\* connection opened, the capability query succeeded and the codec's id is
\* in the reported codec list.
C13_ProbeReleases ==
    [][(last'.op = "is_codec_supported") =>
         /\ dev'.nodes = dev.nodes
         /\ dev'.conns = dev.conns
         /\ Count(last'.calls, "put_dev_node") = 1
         /\ Count(last'.calls, "close") = Count(last'.calls, "GET_CAPS")
         /\ (last'.ret = 1) <=>
               /\ Count(last'.calls, "GET_CAPS") = 1
               /\ last'.err = "none"
               /\ last'.arg.config.codec \in last'.out.codecs
      ]_vars

(***************************************************************************)
(* SpecSentinel: a caller that does not look at what compress_open         *)
(* returned: after opens that fail at any step (or succeed) it calls every *)
(* data and control operation on the sentinel, and waits and asks for the  *)
(* timestamp on the open handle as well.                                   *)
(***************************************************************************)
SentinelOpen ==
    \E flags \in {{}, {COMPRESS_IN}}, config \in {NullConfig, Config(0, 0, 1)},
       env \in OpenEnvs :
        compress_open(flags, config, env)

SentinelClose == \E t \in Targets : compress_close(t)

SentinelWrite == \E size \in 0..1 : compress_write("bad", size)

SentinelRead == \E size \in 0..1 : compress_read("bad", size)

SentinelStart == \E io \in IoctlResults : compress_start("bad", io)

SentinelStop == \E io \in IoctlResults : compress_stop("bad", io)

SentinelPause == \E io \in IoctlResults : compress_pause("bad", io)

SentinelResume == \E io \in IoctlResults : compress_resume("bad", io)

SentinelDrain == \E io \in IoctlResults : compress_drain("bad", io)

SentinelPartialDrain == \E io \in IoctlResults : compress_partial_drain("bad", io)

SentinelNextTrack == \E io \in IoctlResults : compress_next_track("bad", io)

SentinelSetGaplessMetadata ==
    \E verIo \in IoctlResults, padIo \in IoctlResults, delayIo \in IoctlResults :
        compress_set_gapless_metadata("bad", verIo, padIo, delayIo)

SentinelSetCodecParams ==
    \E codec \in Codecs, io \in IoctlResults :
        compress_set_codec_params("bad", codec, io)

SentinelGetHpointer == compress_get_hpointer("bad", 0..1, 0..1)

SentinelGetTstamp == \E t \in Targets : compress_get_tstamp(t, 0..1, 0..1)

SentinelWait == \E t \in Targets : compress_wait(t)

SentinelNext ==
    \/ SentinelOpen
    \/ SentinelClose
    \/ SentinelWrite
    \/ SentinelRead
    \/ SentinelStart
    \/ SentinelStop
    \/ SentinelPause
    \/ SentinelResume
    \/ SentinelDrain
    \/ SentinelPartialDrain
    \/ SentinelNextTrack
    \/ SentinelSetGaplessMetadata
    \/ SentinelSetCodecParams
    \/ SentinelGetHpointer
    \/ SentinelGetTstamp
    \/ SentinelWait

SpecSentinel == InitCurrent /\ [][SentinelNext]_vars

\* the data and control operations
SentinelOps == {"write", "read", "start", "stop", "pause", "resume", "drain",
                "partial_drain", "next_track", "set_gapless_metadata",
                "set_codec_params", "get_hpointer", "get_tstamp", "wait"}

\* C15: every data or control operation invoked on the sentinel returns an
\* error result, with the error recorded on the sentinel, without calling
\* any backend primitive and without reading through the sentinel's null
\* ops or null configuration; the sentinel stays not ready.
C15_SentinelInert ==
    [][(last'.op \in SentinelOps /\ last'.t = "bad") =>
         /\ xfer'.pc # "crashed"
         /\ last'.ret = -1
         /\ last'.err # "none"
         /\ bad_compress'.error.e = last'.err
         /\ last'.calls = <<>>
         /\ ~is_compress_ready(bad_compress')
      ]_vars

(***************************************************************************)
(* The transfer loop against a device that always has enough (SpecTransfer)*)
(***************************************************************************)
RECURSIVE Moved(_)
\* the bytes the sub-transfers of a trace moved
Moved(trace) ==
    IF trace = <<>> THEN 0
    ELSE trace[Len(trace)].moved + Moved(SubSeq(trace, 1, Len(trace) - 1))

\* C17: a blocking compress_read / compress_write of size n, on a device
\* whose reported availability at every query is at least
\* min(fragment_size, remaining) and whose backend moves the full count
\* asked, performs no poll, moves min(available, remaining) bytes in each
\* sub-transfer, keeps transferred + remaining = n after every
\* sub-transfer, and returns n; when the availability is the same a at
\* every query and n = 2a (4096 with 2048 available, fragment size 1024),
\* the call makes exactly two sub-transfers.
C17_FullTransfer ==
    /\ (xfer.pc = "loop" /\ xfer.full /\ compress.nonblocking = 0) =>
          /\ ~xfer.polled
          /\ xfer.total + xfer.size = xfer.req
          /\ Moved(xfer.trace) = xfer.total
    /\ (TransferDone /\ last.out.full /\ compress.nonblocking = 0) =>
          LET n == last.arg.size
              trace == last.out.trace
          IN
          /\ ~last.out.polled
          /\ last.out.stop = "done"
          /\ last.ret = n
          /\ Moved(trace) = n
          /\ \A i \in DOMAIN trace :
                LET remaining == n - Moved(SubSeq(trace, 1, i - 1)) IN
                trace[i].moved = IF trace[i].avail < remaining
                                 THEN trace[i].avail ELSE remaining
          /\ \A a \in 1..MaxAvail :
                ((n = 2 * a) /\ (\A i \in DOMAIN trace : trace[i].avail = a)) =>
                    (Len(trace) = 2)

\* a blocking read of 4 bytes, with 2 bytes available at every query and a
\* fragment size of 1, returned 4 after two sub-reads of 2 bytes
C17_Witness ==
    /\ TransferDone /\ last.op = "read" /\ compress.nonblocking = 0
    /\ last.out.full /\ last.arg.size = 4 /\ last.ret = 4
    /\ compress.config.fragment_size = 1
    /\ last.out.trace = <<[avail |-> 2, moved |-> 2], [avail |-> 2, moved |-> 2]>>

(***************************************************************************)
(* SpecTransferLive: the caller of SpecTransfer, with the loop of a call   *)
(* in progress going on to its next iteration: every backend call of an    *)
(* iteration returns.                                                      *)
(***************************************************************************)
SpecTransferLive ==
    /\ SpecTransfer
    /\ WF_vars(compress_write_loop)
    /\ WF_vars(compress_read_loop)

\* C19: every blocking compress_write / compress_read call eventually
\* returns, given that each backend call of the loop returns.
C19_BlockingTransferReturns ==
    (xfer.pc = "loop" /\ compress.nonblocking = 0) ~> (xfer.pc = "idle")

====
